---- MODULE Spec2Model ----
(***************************************************************************)
(* Model of the echo backend's content-to-audio core: the request store    *)
(* (table audio_clips and the audio-files bucket), the dispatcher loop     *)
(* run_worker, the runner process_clip and the six graph nodes.            *)
(*                                                                         *)
(* Spec:     one dispatcher; every call to the store may raise.            *)
(* SpecRace: two dispatchers on the same store; the store answers.         *)
(* In both, the LLM, the speech synthesis and the bucket may fail, and a   *)
(* dispatcher may be interrupted at any point.                             *)
(***************************************************************************)
EXTENDS Integers, Sequences, FiniteSets, TLC

\* ---------------------------------------------------------------- bounds
\* clips created under Spec (one dispatcher) and under SpecRace (two)
MaxClips == 2
RaceClips == 1
\* history counters saturate here
CountCap == 2
PollClips == 6
RunClips == 1
ChatConvs == 1
MaxTokens == 2
MaxMessages == 3
ApiClips == 1
MaxHistory == 22

\* ------------------------------------------------------ program constants
BatchLimit == 5

Workers == {"w1", "w2"}
None == "None"
InputTypes == {"note", "url"}
InputContents == {"text"}
TargetDurations == {5}
ContextInstructions == {None}

\* field values for the runs of a single request: two texts, one of them the
\* address of a page whose fetch times out, and every duration a client may ask
RunContents == {"some text", "https://site.down/page"}
RunDurations == {2, 5, 10}

\* error messages produced by the code
MsgScript == "Script generation failed: e"
MsgNoScript == "No script available for TTS conversion"
MsgTts == "TTS conversion failed: e"
MsgNoAudio == "No audio data available to save"
MsgSave == "Failed to save audio: e"
MsgUpdate == "Failed to update clip status: e"
MsgStore == "store unreachable"
MsgLlmSetup == "llm setup failed"

VARIABLES
    clips,      \* table audio_clips: sequence of rows, id = index = creation order
    objects,    \* bucket audio-files: ids c with an object c.mp3
    pc,         \* per worker: position in run_worker / process_clip / the graph
    batch,      \* per worker: rest of result.data of the current poll
    st,         \* per worker: the ProcessingState dict of the current run
    exc,        \* per worker: the exception process_clip's handler is handling
    errSeen,    \* per worker: run_worker has logged "[ERROR] Worker error"
    runBy,      \* per clip: the workers that started a pipeline run for it
    termWrites, \* per clip: number of completed/failed writes (saturating)
    firstError, \* per worker: the first error message a stage set in this run
    calls,      \* per worker: external services called in this run
    trace,      \* per worker: the nodes invoked in this run, in order
    llmWords,   \* per worker: target_word_count of this run's prompt (0: none)
    ret,        \* per worker: what the process_clip call just ended returned
    conversations, \* table conversations: sequence of rows, id = index
    messages,   \* table conversation_messages, in order of creation
    chat,       \* per handler: a send_message request and its response
    progress,   \* table playback_progress: one row per user and clip
    api,        \* per caller: a request to a clip route and its response
    created     \* the response of the last create_clip call

vars == <<clips, objects, pc, batch, st, exc, errSeen, runBy, termWrites,
          firstError, calls, trace, llmWords, ret,
          conversations, messages, chat, progress, api, created>>

\* the state of the routes, which the dispatcher never touches
webVars == <<conversations, messages, chat, api, created>>

\* the variables only a run of the graph or a return of process_clip changes
runOut == <<trace, llmWords, ret>>

\* ------------------------------------------------------------------ store
NewRow(u, t, content, dur, instr) ==
    [user_id |-> u, is_favorited |-> FALSE,
     status |-> "pending", input_type |-> t, input_content |-> content,
     target_duration |-> dur, context_instruction |-> instr,
     started_processing_at |-> FALSE, generated_script |-> None,
     audio_url |-> None, actual_duration |-> None, page_title |-> None,
     completed_at |-> FALSE, error_message |-> None]

\* what is left at the index of a deleted row: ids are never used again
DeletedRow == [NewRow(None, None, None, 0, None) EXCEPT !.status = "deleted"]

\* a store that still answers for a row that was deleted
Exists_AnyRow(c) == c \in DOMAIN clips

Exists(c) == c \in DOMAIN clips /\ clips[c].status # "deleted"

Min(a, b) == IF a < b THEN a ELSE b

Bump(n) == Min(n + 1, CountCap)

IdSeq == [i \in 1..Len(clips) |-> i]

IsPending(c) == clips[c].status = "pending"

\* select id where status = pending order by created_at asc limit 5
\* a poll that filters on the wrong status
PendingBatch_WrongStatus ==
    LET p == SelectSeq(IdSeq, LAMBDA c : clips[c].status = "processing")
    IN  SubSeq(p, 1, Min(BatchLimit, Len(p)))

\* the poll's query without its limit
PendingBatch_NoLimit == SelectSeq(IdSeq, IsPending)

PendingBatch ==
    LET p == SelectSeq(IdSeq, IsPending)
    IN  SubSeq(p, 1, Min(BatchLimit, Len(p)))

\* ------------------------------------------------------- ProcessingState
NoState ==
    [clip_id |-> 0, input_type |-> None, input_content |-> None,
     target_duration |-> 0, context_instruction |-> None,
     extracted_content |-> None, page_title |-> None, script |-> None,
     audio_data |-> None, audio_filename |-> None, audio_url |-> None,
     actual_duration |-> None, error |-> None]

InitialState(c, row) ==
    [NoState EXCEPT !.clip_id = c, !.input_type = row.input_type,
                    !.input_content = row.input_content,
                    !.target_duration = row.target_duration,
                    !.context_instruction = row.context_instruction]

Falsy(v) == v \in {None, ""}

route_input(s) == IF s.input_type = "note" THEN "process_note" ELSE "scrape_url"

\* a graph whose edges store the audio before it is synthesized
NextNode_Swapped(n) ==
    CASE n = "process_note" -> "generate_script"
      [] n = "scrape_url" -> "generate_script"
      [] n = "generate_script" -> "save_audio"
      [] n = "save_audio" -> "text_to_speech"
      [] n = "text_to_speech" -> "update_status"
      [] n = "update_status" -> "check"

\* a graph whose note stage is followed by the url stage
NextNode_Both(n) ==
    CASE n = "process_note" -> "scrape_url"
      [] n = "scrape_url" -> "generate_script"
      [] n = "generate_script" -> "text_to_speech"
      [] n = "text_to_speech" -> "save_audio"
      [] n = "save_audio" -> "update_status"
      [] n = "update_status" -> "check"

\* the edges of the graph; END returns to process_clip's error check
NextNode(n) ==
    CASE n = "process_note" -> "generate_script"
      [] n = "scrape_url" -> "generate_script"
      [] n = "generate_script" -> "text_to_speech"
      [] n = "text_to_speech" -> "save_audio"
      [] n = "save_audio" -> "update_status"
      [] n = "update_status" -> "check"

Stages == {"process_note", "scrape_url", "generate_script", "text_to_speech",
           "save_audio", "update_status"}

\* a stage returned state s2: remember the first error of the run
NoteError(w, s2) ==
    firstError' = [firstError EXCEPT
                     ![w] = IF @ = None THEN s2.error ELSE @]

\* process_clip's return value; run_worker drops it
NoReturn == [success |-> FALSE, error |-> "no call returned"]
Success == [success |-> TRUE, error |-> None]
Failure(msg) == [success |-> FALSE, error |-> msg]

\* ------------------------------------------------------------ clip routes
Users == {"u1", "u2"}
\* requests being served, each by a server process of its own
Callers == {"a1", "a2"}

ApiOps == {"get_clip", "toggle_favorite", "delete_clip", "get_progress",
           "update_progress"}

\* target durations a client may send: one of the three allowed and one not
RequestDurations == {5, 7}

\* the body of an update_progress request
Positions == {30}

\* no request in flight
NoCall ==
    [pc |-> "idle", op |-> None, user |-> None, clip_id |-> 0,
     is_favorited |-> FALSE, audio_url |-> None,
     position_seconds |-> 0, has_completed |-> FALSE, http |-> 0]

OwnedRow_AnyUser(u, c) == Exists(c)

\* select ... eq(id, c).eq(user_id, u).single() finds a row
OwnedRow(u, c) == Exists(c) /\ clips[c].user_id = u

\* the body of a create_clip request that CreateClipRequest accepts
ValidRequest_AnyDuration(t, dur) == t \in InputTypes

ValidRequest(t, dur) == t \in InputTypes /\ dur \in {2, 5, 10}

ProgressRow(u, c, position, completed) ==
    [user_id |-> u, clip_id |-> c, position_seconds |-> position,
     has_completed |-> completed]

Response(code, c) == [http |-> code, clip_id |-> c]

\* ---------------------------------------------------------- conversations
Handlers == {"h1"}
Modes == {"type", "talk"}

\* texts are sequences of characters
Chars(n) == [i \in 1..n |-> "x"]

TYPE_MODE_SYSTEM_PROMPT == <<"type mode system prompt">>
TALK_MODE_SYSTEM_PROMPT == <<"talk mode system prompt">>
GREETING_MESSAGE == <<"Hey, what's on your mind?">>
MAX_CONTEXT_MESSAGES == 20
TitleChars == 50

\* a short message and one longer than a title
MessageContents == {Chars(1), Chars(TitleChars + 1)}
ConversationTitles == {<<>>, <<"t">>}
NewTitles == {<<"r">>}
Tokens == {<<"a">>, <<"b", "c">>}

\* a send_message request that has not arrived yet
NoChat ==
    [pc |-> "idle", conversation_id |-> 0, content |-> <<>>, mode |-> None,
     stream |-> FALSE, conv_title |-> <<>>, context |-> <<>>,
     full_response |-> <<>>, events |-> <<>>, http |-> 0]

\* select role, content where conversation_id = c order by created_at
History(c) ==
    LET of == SelectSeq(messages, LAMBDA m : m.conversation_id = c)
    IN  [i \in 1..Len(of) |-> [role |-> of[i].role, content |-> of[i].content]]

\* a context built from the oldest messages
build_context_Oldest(msgs, mode) ==
    LET system_prompt == IF mode = "talk" THEN TALK_MODE_SYSTEM_PROMPT
                         ELSE TYPE_MODE_SYSTEM_PROMPT
        recent == IF Len(msgs) > MAX_CONTEXT_MESSAGES
                  THEN SubSeq(msgs, 1, MAX_CONTEXT_MESSAGES)
                  ELSE msgs
        kept == SelectSeq(recent, LAMBDA m : m.role \in {"user", "assistant"})
    IN  <<[role |-> "system", content |-> system_prompt]>> \o kept

build_context(msgs, mode) ==
    LET system_prompt == IF mode = "talk" THEN TALK_MODE_SYSTEM_PROMPT
                         ELSE TYPE_MODE_SYSTEM_PROMPT
        recent == IF Len(msgs) > MAX_CONTEXT_MESSAGES
                  THEN SubSeq(msgs, Len(msgs) - MAX_CONTEXT_MESSAGES + 1,
                              Len(msgs))
                  ELSE msgs
        kept == SelectSeq(recent, LAMBDA m : m.role \in {"user", "assistant"})
    IN  <<[role |-> "system", content |-> system_prompt]>> \o kept

\* the context generate_response and generate_response_stream hand to the
\* LLM: the stored messages, the new user message once more, and the mode
\* their caller gave them
LlmContext(c, content, mode) ==
    build_context(History(c) \o <<[role |-> "user", content |-> content]>>,
                  mode)

\* send_message calls both generators without a mode: their default applies
DefaultMode == "type"

auto_title(content) ==
    IF Len(content) > TitleChars
    THEN SubSeq(content, 1, TitleChars) \o <<".", ".", ".">>
    ELSE content

Owns(u, c) == c \in DOMAIN conversations /\ conversations[c].user_id = u

Message(c, role, content) ==
    [conversation_id |-> c, role |-> role, content |-> content]

\* ------------------------------------------------------------------- Init
InitStore ==
    /\ clips = <<>>
    /\ objects = {}
    /\ runBy = <<>>
    /\ termWrites = <<>>
    /\ conversations = <<>>
    /\ messages = <<>>
    /\ chat = [h \in Handlers |-> NoChat]
    /\ progress = {}
    /\ api = [a \in Callers |-> NoCall]
    /\ created = Response(0, 0)

InitWorkers(running) ==
    /\ pc = [w \in Workers |-> IF w \in running THEN "poll" ELSE "stopped"]
    /\ batch = [w \in Workers |-> <<>>]
    /\ st = [w \in Workers |-> NoState]
    /\ exc = [w \in Workers |-> None]
    /\ errSeen = [w \in Workers |-> FALSE]
    /\ firstError = [w \in Workers |-> None]
    /\ calls = [w \in Workers |-> {}]
    /\ trace = [w \in Workers |-> <<>>]
    /\ llmWords = [w \in Workers |-> 0]
    /\ ret = [w \in Workers |-> NoReturn]

\* one dispatcher started
Init == InitStore /\ InitWorkers({"w1"})

\* two dispatchers started
InitRace == InitStore /\ InitWorkers(Workers)

\* a stored conversation of n messages, the i-th with a text of i characters;
\* the messages at a and b have role system, the others alternate
StoredMessages(n, a, b) ==
    [i \in 1..n |->
        Message(1, IF i \in {a, b} THEN "system"
                   ELSE IF i % 2 = 1 THEN "assistant" ELSE "user",
                Chars(i))]

\* one conversation with a history of up to MaxHistory messages
InitContext ==
    /\ InitWorkers({})
    /\ clips = <<>>
    /\ objects = {}
    /\ runBy = <<>>
    /\ termWrites = <<>>
    /\ conversations = <<[user_id |-> "u1", title |-> <<"t">>]>>
    /\ \E n \in 0..MaxHistory :
          \E a \in 0..n, b \in 0..n : messages = StoredMessages(n, a, b)
    /\ chat = [h \in Handlers |-> NoChat]
    /\ progress = {}
    /\ api = [a \in Callers |-> NoCall]
    /\ created = Response(0, 0)

\* ------------------------------------------------------------ create_clip
\* the insert into audio_clips; ids are given in creation order
\* create_clip by user u; ins, prog: the insert of the row and the insert of
\* the playback progress succeed (TRUE) or raise (FALSE)
CreateClip(u, t, content, dur, instr, ins, prog, limit) ==
    /\ Len(clips) < limit
    /\ IF ~ValidRequest(t, dur)
       THEN /\ created' = Response(422, 0)
            /\ UNCHANGED <<clips, runBy, termWrites, progress>>
       ELSE IF ~ins
       THEN /\ created' = Response(500, 0)
            /\ UNCHANGED <<clips, runBy, termWrites, progress>>
       ELSE /\ clips' = Append(clips, NewRow(u, t, content, dur, instr))
            /\ runBy' = Append(runBy, {})
            /\ termWrites' = Append(termWrites, 0)
            /\ progress' = IF prog
                           THEN progress \cup
                                {ProgressRow(u, Len(clips) + 1, 0, FALSE)}
                           ELSE progress
            /\ created' = Response(201, Len(clips) + 1)
    /\ UNCHANGED <<objects, pc, batch, st, exc, errSeen, firstError, calls>>
    /\ UNCHANGED runOut
    /\ UNCHANGED <<conversations, messages, chat, api>>

\* kinds a state dict handed to the graph may carry: the two of
\* ProcessingState and one that is neither
Kinds == InputTypes \cup {"pdf"}

\* processing_graph.invoke(state) called by w1 on a state dict of any kind
InitGraph ==
    /\ InitStore
    /\ pc = [w \in Workers |-> IF w = "w1" THEN "entry" ELSE "stopped"]
    /\ \E t \in Kinds, content \in RunContents, dur \in RunDurations :
          st = [w \in Workers |->
                  IF w = "w1"
                  THEN InitialState(1, NewRow("u1", t, content, dur, None))
                  ELSE NoState]
    /\ batch = [w \in Workers |-> <<>>]
    /\ exc = [w \in Workers |-> None]
    /\ errSeen = [w \in Workers |-> FALSE]
    /\ firstError = [w \in Workers |-> None]
    /\ calls = [w \in Workers |-> {}]
    /\ trace = [w \in Workers |-> <<>>]
    /\ llmWords = [w \in Workers |-> 0]
    /\ ret = [w \in Workers |-> NoReturn]

\* ------------------------------------------------------------- run_worker
\* a loop whose handler for Exception ends it instead of sleeping
WorkerOnError_Break == "stopped"

\* where the loop goes when an Exception reaches its handler
WorkerOnError == "errsleep"

\* process_clip returned or raised: the run's locals are gone
EndRun(w) ==
    /\ st' = [st EXCEPT ![w] = NoState]
    /\ exc' = [exc EXCEPT ![w] = None]
    /\ firstError' = [firstError EXCEPT ![w] = None]
    /\ calls' = [calls EXCEPT ![w] = {}]
    /\ trace' = [trace EXCEPT ![w] = <<>>]
    /\ llmWords' = [llmWords EXCEPT ![w] = 0]

\* process_clip returns r to the loop, or leaves it with no value
Return(w, r) == ret' = [ret EXCEPT ![w] = r]

\* an Exception reaches run_worker's handler: log, then sleep
RaiseToWorker(w) ==
    /\ pc' = [pc EXCEPT ![w] = WorkerOnError]
    /\ batch' = [batch EXCEPT ![w] = <<>>]
    /\ errSeen' = [errSeen EXCEPT ![w] = TRUE]

Poll(w, up) ==
    /\ pc[w] = "poll"
    /\ IF up
       THEN /\ batch' = [batch EXCEPT ![w] = PendingBatch]
            /\ pc' = [pc EXCEPT ![w] = "loop"]
            /\ UNCHANGED errSeen
       ELSE RaiseToWorker(w)
    /\ UNCHANGED <<clips, objects, st, exc, runBy, termWrites, firstError, calls>>
    /\ UNCHANGED runOut
    /\ UNCHANGED webVars
    /\ UNCHANGED progress

WorkerSleep(w) ==
    /\ pc[w] = "loop"
    /\ batch[w] = <<>>
    /\ pc' = [pc EXCEPT ![w] = "poll"]
    /\ Return(w, NoReturn)
    /\ UNCHANGED <<clips, objects, batch, st, exc, errSeen, runBy, termWrites,
                   firstError, calls, trace, llmWords>>
    /\ UNCHANGED webVars
    /\ UNCHANGED progress

WorkerErrorSleep(w) ==
    /\ pc[w] = "errsleep"
    /\ pc' = [pc EXCEPT ![w] = "poll"]
    /\ UNCHANGED <<clips, objects, batch, st, exc, errSeen, runBy, termWrites,
                   firstError, calls>>
    /\ UNCHANGED runOut
    /\ UNCHANGED webVars
    /\ UNCHANGED progress

\* KeyboardInterrupt: not an Exception, so nothing but run_worker's break sees it
Interrupt(w) ==
    /\ pc[w] # "stopped"
    /\ pc' = [pc EXCEPT ![w] = "stopped"]
    /\ batch' = [batch EXCEPT ![w] = <<>>]
    /\ EndRun(w)
    /\ Return(w, NoReturn)
    /\ UNCHANGED <<clips, objects, errSeen, runBy, termWrites>>
    /\ UNCHANGED webVars
    /\ UNCHANGED progress

\* ----------------------------------------------------------- process_clip
\* the status a claim write requires the row to have (None: no condition)
ClaimRequires == None

ClaimApplies(c) ==
    Exists(c) /\ (ClaimRequires = None \/ clips[c].status = ClaimRequires)

ProcessClipFetch(w, up) ==
    /\ pc[w] = "loop"
    /\ batch[w] # <<>>
    /\ LET c == Head(batch[w]) IN
       /\ batch' = [batch EXCEPT ![w] = Tail(@)]
       /\ IF ~up
          THEN /\ st' = [st EXCEPT ![w] = [NoState EXCEPT !.clip_id = c]]
               /\ exc' = [exc EXCEPT ![w] = MsgStore]
               /\ pc' = [pc EXCEPT ![w] = "handler"]
               /\ Return(w, NoReturn)
          ELSE IF ~Exists(c)
          THEN /\ pc' = [pc EXCEPT ![w] = "loop"]
               /\ Return(w, Failure("Clip not found"))
               /\ UNCHANGED <<st, exc>>
          ELSE /\ st' = [st EXCEPT ![w] = InitialState(c, clips[c])]
               /\ pc' = [pc EXCEPT ![w] = "claim"]
               /\ Return(w, NoReturn)
               /\ UNCHANGED exc
    /\ UNCHANGED <<clips, objects, errSeen, runBy, termWrites, firstError, calls,
                   trace, llmWords>>
    /\ UNCHANGED webVars
    /\ UNCHANGED progress

ProcessClipClaim(w, up) ==
    /\ pc[w] = "claim"
    /\ LET c == st[w].clip_id IN
       IF ~up
       THEN /\ exc' = [exc EXCEPT ![w] = MsgStore]
            /\ pc' = [pc EXCEPT ![w] = "handler"]
            /\ UNCHANGED <<clips, runBy>>
       ELSE /\ clips' = IF ClaimApplies(c)
                        THEN [clips EXCEPT ![c].status = "processing",
                                           ![c].started_processing_at = TRUE]
                        ELSE clips
            /\ runBy' = [runBy EXCEPT ![c] = @ \cup {w}]
            /\ pc' = [pc EXCEPT ![w] = route_input(st[w])]
            /\ UNCHANGED exc
    /\ UNCHANGED <<objects, batch, st, errSeen, termWrites, firstError, calls>>
    /\ UNCHANGED runOut
    /\ UNCHANGED webVars
    /\ UNCHANGED progress

\* update({status: failed, error_message: msg}).eq(id, c)
WriteFailed(c, msg) ==
    /\ clips' = IF Exists(c)
                THEN [clips EXCEPT ![c].status = "failed",
                                   ![c].error_message = msg]
                ELSE clips
    /\ termWrites' = IF Exists(c)
                     THEN [termWrites EXCEPT ![c] = Bump(@)]
                     ELSE termWrites

ProcessClipCheck(w, up) ==
    /\ pc[w] = "check"
    /\ IF st[w].error = None
       THEN /\ pc' = [pc EXCEPT ![w] = "loop"]
            /\ EndRun(w)
            /\ Return(w, Success)
            /\ UNCHANGED <<clips, termWrites>>
       ELSE IF up
       THEN /\ WriteFailed(st[w].clip_id, st[w].error)
            /\ pc' = [pc EXCEPT ![w] = "loop"]
            /\ EndRun(w)
            /\ Return(w, Failure(st[w].error))
       ELSE /\ exc' = [exc EXCEPT ![w] = MsgStore]
            /\ pc' = [pc EXCEPT ![w] = "handler"]
            /\ UNCHANGED <<clips, termWrites, st, firstError, calls>>
            /\ UNCHANGED runOut
    /\ UNCHANGED <<objects, batch, errSeen, runBy>>
    /\ UNCHANGED webVars
    /\ UNCHANGED progress

ProcessClipHandler(w, up) ==
    /\ pc[w] = "handler"
    /\ IF up
       THEN /\ WriteFailed(st[w].clip_id, exc[w])
            /\ pc' = [pc EXCEPT ![w] = "loop"]
            /\ Return(w, Failure(exc[w]))
            /\ UNCHANGED <<batch, errSeen>>
       ELSE /\ RaiseToWorker(w)
            /\ Return(w, NoReturn)
            /\ UNCHANGED <<clips, termWrites>>
    /\ EndRun(w)
    /\ UNCHANGED <<objects, runBy>>
    /\ UNCHANGED webVars
    /\ UNCHANGED progress

\* ------------------------------------------------------------ graph nodes
\* a note stage that cuts the text
process_note_node_Cut(s) == [s EXCEPT !.extracted_content = "some"]

process_note_node(s) == [s EXCEPT !.extracted_content = s.input_content]

\* the conditional entry point: the graph asks route_input for the first node
GraphEntry(w) ==
    /\ pc[w] = "entry"
    /\ pc' = [pc EXCEPT ![w] = route_input(st[w])]
    /\ UNCHANGED <<clips, objects, batch, st, exc, errSeen, runBy, termWrites,
                   firstError, calls>>
    /\ UNCHANGED runOut
    /\ UNCHANGED webVars
    /\ UNCHANGED progress

\* the graph invokes node n in worker w's run
Invoke(w, n) == trace' = [trace EXCEPT ![w] = Append(@, n)]

ProcessNoteNode(w) ==
    /\ pc[w] = "process_note"
    /\ Invoke(w, "process_note")
    /\ st' = [st EXCEPT ![w] = process_note_node(@)]
    /\ pc' = [pc EXCEPT ![w] = NextNode("process_note")]
    /\ UNCHANGED <<clips, objects, batch, exc, errSeen, runBy, termWrites,
                   firstError, calls, llmWords, ret>>
    /\ UNCHANGED webVars
    /\ UNCHANGED progress

\* a stage that also records a title in place of the address it was given
scrape_url_node_InPlace(s) ==
    [s EXCEPT !.extracted_content = "TODO: Implement URL scraping",
              !.page_title = "TODO: Extract title",
              !.input_content = "TODO: Extract title"]

scrape_url_node(s) ==
    [s EXCEPT !.extracted_content = "TODO: Implement URL scraping",
              !.page_title = "TODO: Extract title"]

ScrapeUrlNode(w) ==
    /\ pc[w] = "scrape_url"
    /\ Invoke(w, "scrape_url")
    /\ st' = [st EXCEPT ![w] = scrape_url_node(@)]
    /\ pc' = [pc EXCEPT ![w] = NextNode("scrape_url")]
    /\ UNCHANGED <<clips, objects, batch, exc, errSeen, runBy, termWrites,
                   firstError, calls, llmWords, ret>>
    /\ UNCHANGED webVars
    /\ UNCHANGED progress

LlmOutcomes == {"text", "blank", "raise", "setup_fault"}

WordsPerMinute == 150

\* a word count taken from the seconds of the target duration
target_word_count_Seconds(s) == s.target_duration * 60

\* the word count the prompt asks for
target_word_count(s) == s.target_duration * WordsPerMinute

\* llm: what chain.invoke did ("text": prose, "blank": whitespace only, "raise")
generate_script_node(s, llm) ==
    CASE llm = "text" -> [s EXCEPT !.script = "script"]
      [] llm = "blank" -> [s EXCEPT !.script = ""]
      [] llm = "raise" -> [s EXCEPT !.error = MsgScript]

GenerateScriptNode(w, llm) ==
    /\ pc[w] = "generate_script"
    /\ Invoke(w, "generate_script")
    /\ IF llm = "setup_fault"
       THEN \* get_settings / get_llm raise outside the node's try block
            /\ exc' = [exc EXCEPT ![w] = MsgLlmSetup]
            /\ pc' = [pc EXCEPT ![w] = "handler"]
            /\ UNCHANGED <<st, firstError, calls, llmWords>>
       ELSE /\ st' = [st EXCEPT ![w] = generate_script_node(@, llm)]
            /\ NoteError(w, generate_script_node(st[w], llm))
            /\ calls' = [calls EXCEPT ![w] = @ \cup {"llm"}]
            /\ llmWords' = [llmWords EXCEPT ![w] = target_word_count(st[w])]
            /\ pc' = [pc EXCEPT ![w] = NextNode("generate_script")]
            /\ UNCHANGED exc
    /\ UNCHANGED <<clips, objects, batch, errSeen, runBy, termWrites, ret>>
    /\ UNCHANGED webVars
    /\ UNCHANGED progress

TtsOutcomes == {"audio", "error"}

\* a stage that sends whatever script it has to the service
text_to_speech_node_NoGuard(s, tts) ==
    IF tts = "error"
    THEN [s EXCEPT !.error = MsgTts]
    ELSE [s EXCEPT !.audio_data = "mp3", !.actual_duration = "seconds"]

\* a stage that copies the service's whole result, error or not
text_to_speech_node_WritesResult(s, tts) ==
    IF Falsy(s.script)
    THEN [s EXCEPT !.error = MsgNoScript]
    ELSE IF tts = "error"
    THEN [s EXCEPT !.error = MsgTts, !.audio_data = "", !.actual_duration = "0"]
    ELSE [s EXCEPT !.audio_data = "mp3", !.actual_duration = "seconds"]

text_to_speech_node(s, tts) ==
    IF Falsy(s.script)
    THEN [s EXCEPT !.error = MsgNoScript]
    ELSE IF tts = "error"
    THEN [s EXCEPT !.error = MsgTts]
    ELSE [s EXCEPT !.audio_data = "mp3", !.actual_duration = "seconds"]

TextToSpeechNode(w, tts) ==
    /\ pc[w] = "text_to_speech"
    /\ Invoke(w, "text_to_speech")
    /\ st' = [st EXCEPT ![w] = text_to_speech_node(@, tts)]
    /\ NoteError(w, text_to_speech_node(st[w], tts))
    /\ calls' = [calls EXCEPT
                   ![w] = IF Falsy(st[w].script) THEN @ ELSE @ \cup {"tts"}]
    /\ pc' = [pc EXCEPT ![w] = NextNode("text_to_speech")]
    /\ UNCHANGED <<clips, objects, batch, exc, errSeen, runBy, termWrites,
                   llmWords, ret>>
    /\ UNCHANGED webVars
    /\ UNCHANGED progress

StorageOutcomes == {"ok", "upload_fail", "sign_fail"}

\* a stage that records the file name as soon as the upload is done
save_audio_node_EarlyFilename(s, sto) ==
    IF Falsy(s.audio_data)
    THEN [s EXCEPT !.error = MsgNoAudio]
    ELSE IF sto = "ok"
    THEN [s EXCEPT !.audio_filename = "mp3", !.audio_url = "signed"]
    ELSE IF sto = "sign_fail"
    THEN [s EXCEPT !.audio_filename = "mp3", !.error = MsgSave]
    ELSE [s EXCEPT !.error = MsgSave]

save_audio_node(s, sto) ==
    IF Falsy(s.audio_data)
    THEN [s EXCEPT !.error = MsgNoAudio]
    ELSE IF sto = "ok"
    THEN [s EXCEPT !.audio_filename = "mp3", !.audio_url = "signed"]
    ELSE [s EXCEPT !.error = MsgSave]

SaveAudioNode(w, sto) ==
    /\ pc[w] = "save_audio"
    /\ Invoke(w, "save_audio")
    /\ st' = [st EXCEPT ![w] = save_audio_node(@, sto)]
    /\ NoteError(w, save_audio_node(st[w], sto))
    /\ IF Falsy(st[w].audio_data)
       THEN UNCHANGED <<objects, calls>>
       ELSE /\ objects' = IF sto = "upload_fail"
                          THEN objects
                          ELSE objects \cup {st[w].clip_id}
            /\ calls' = [calls EXCEPT
                           ![w] = @ \cup (IF sto = "upload_fail"
                                          THEN {"upload"}
                                          ELSE {"upload", "sign"})]
    /\ pc' = [pc EXCEPT ![w] = NextNode("save_audio")]
    /\ UNCHANGED <<clips, batch, exc, errSeen, runBy, termWrites, llmWords, ret>>
    /\ UNCHANGED webVars
    /\ UNCHANGED progress

\* update_data of update_clip_status_node applied to a row
CompletedRow(row, s) ==
    [row EXCEPT !.status = "completed",
                !.generated_script = s.script,
                !.audio_url = s.audio_url,
                !.actual_duration = IF Falsy(s.actual_duration)
                                    THEN None ELSE s.actual_duration,
                !.completed_at = TRUE,
                !.page_title = IF Falsy(s.page_title) THEN @ ELSE s.page_title]

UpdateClipStatusNode(w, up) ==
    /\ pc[w] = "update_status"
    /\ Invoke(w, "update_status")
    /\ LET c == st[w].clip_id IN
       IF up
       THEN /\ clips' = IF Exists(c)
                        THEN [clips EXCEPT ![c] = CompletedRow(@, st[w])]
                        ELSE clips
            /\ termWrites' = IF Exists(c)
                             THEN [termWrites EXCEPT ![c] = Bump(@)]
                             ELSE termWrites
            /\ UNCHANGED <<st, firstError>>
       ELSE /\ st' = [st EXCEPT ![w].error = MsgUpdate]
            /\ NoteError(w, [st[w] EXCEPT !.error = MsgUpdate])
            /\ UNCHANGED <<clips, termWrites>>
    /\ pc' = [pc EXCEPT ![w] = NextNode("update_status")]
    /\ UNCHANGED <<objects, batch, exc, errSeen, runBy, calls, llmWords, ret>>
    /\ UNCHANGED webVars
    /\ UNCHANGED progress

\* ------------------------------------------------ clip and playback routes
\* what the clip routes leave alone
notApi == <<pc, batch, st, exc, errSeen, runBy, termWrites, firstError, calls,
           trace, llmWords, ret, conversations, messages, chat, created>>

\* a request arrives and the route makes its first call to the store, the
\* query for the caller's own row; get_clip and get_progress answer from it
ApiRequest(a, op, u, c, position, completed, up) ==
    /\ api[a].pc = "idle"
    /\ LET r == [NoCall EXCEPT !.op = op, !.user = u, !.clip_id = c] IN
       api' = [api EXCEPT ![a] =
          IF ~up THEN [r EXCEPT !.pc = "end", !.http = 500]
          ELSE IF ~OwnedRow(u, c) THEN [r EXCEPT !.pc = "end", !.http = 404]
          ELSE IF op \in {"get_clip", "get_progress"}
          THEN [r EXCEPT !.pc = "end", !.http = 200]
          ELSE IF op = "toggle_favorite"
          THEN [r EXCEPT !.pc = "update",
                         !.is_favorited = clips[c].is_favorited]
          ELSE IF op = "delete_clip"
          THEN [r EXCEPT !.pc = IF Falsy(clips[c].audio_url)
                                THEN "delete" ELSE "remove",
                         !.audio_url = clips[c].audio_url]
          ELSE [r EXCEPT !.pc = "upsert", !.position_seconds = position,
                         !.has_completed = completed]]
    /\ UNCHANGED <<clips, objects, progress>>
    /\ UNCHANGED notApi

\* toggle_favorite: write the negation of the value read
ToggleUpdate(a, up) ==
    /\ api[a].pc = "update"
    /\ LET c == api[a].clip_id
           hit == up /\ OwnedRow(api[a].user, c)
       IN  /\ clips' = IF hit
                        THEN [clips EXCEPT
                                ![c].is_favorited = ~api[a].is_favorited]
                        ELSE clips
           /\ api' = [api EXCEPT ![a].pc = "end",
                                 ![a].http = IF hit THEN 200 ELSE 500]
    /\ UNCHANGED <<objects, progress>>
    /\ UNCHANGED notApi

\* delete_clip: remove the audio object; a failure is logged and ignored
DeleteRemove(a, up) ==
    /\ api[a].pc = "remove"
    /\ objects' = IF up THEN objects \ {api[a].clip_id} ELSE objects
    /\ api' = [api EXCEPT ![a].pc = "delete"]
    /\ UNCHANGED <<clips, progress>>
    /\ UNCHANGED notApi

\* delete_clip: delete the row; its playback progress goes with it
DeleteRow(a, up) ==
    /\ api[a].pc = "delete"
    /\ LET c == api[a].clip_id
           hit == up /\ OwnedRow(api[a].user, c)
       IN  /\ clips' = IF hit THEN [clips EXCEPT ![c] = DeletedRow] ELSE clips
           /\ progress' = IF hit
                          THEN {p \in progress : p.clip_id # c}
                          ELSE progress
           /\ api' = [api EXCEPT ![a].pc = "end",
                                 ![a].http = IF up THEN 200 ELSE 500]
    /\ UNCHANGED objects
    /\ UNCHANGED notApi

\* update_progress: upsert on (user_id, clip_id); the clip must still exist
UpsertProgress(a, up) ==
    /\ api[a].pc = "upsert"
    /\ LET c == api[a].clip_id
           u == api[a].user
           hit == up /\ Exists(c)
       IN  /\ progress' =
                 IF hit
                 THEN {p \in progress : ~(p.clip_id = c /\ p.user_id = u)}
                      \cup {ProgressRow(u, c, api[a].position_seconds,
                                        api[a].has_completed)}
                 ELSE progress
           /\ api' = [api EXCEPT ![a].pc = "end",
                                 ![a].http = IF hit THEN 200 ELSE 500]
    /\ UNCHANGED <<clips, objects>>
    /\ UNCHANGED notApi

\* the response has been sent; the caller may send its next request
ApiDone(a) ==
    /\ api[a].pc = "end"
    /\ api' = [api EXCEPT ![a] = NoCall]
    /\ UNCHANGED <<clips, objects, progress>>
    /\ UNCHANGED notApi

\* ----------------------------------------------------------- send_message
\* the variables of the dispatcher, its store and the clip routes
coreVars == <<clips, objects, pc, batch, st, exc, errSeen, runBy, termWrites,
             firstError, calls, trace, llmWords, ret, progress, api, created>>

\* create_conversation: the row and the greeting message
CreateConversation(u, title) ==
    /\ Len(conversations) < ChatConvs
    /\ conversations' = Append(conversations, [user_id |-> u, title |-> title])
    /\ messages' = Append(messages,
                          Message(Len(conversations) + 1, "assistant",
                                  GREETING_MESSAGE))
    /\ UNCHANGED chat
    /\ UNCHANGED coreVars

\* handler h ends its request with an HTTP status
Respond(h, code) == [chat[h] EXCEPT !.pc = "end", !.http = code]

\* handler h's stream emits event e
Emit(r, e) == [r EXCEPT !.events = Append(@, e)]

ErrorEvent == [type |-> "error"]

\* send_message up to its first await: the ownership check, the insert of
\* the user message and, when not streaming, the context of generate_response;
\* fault: the call to the store that raises
SendFaults == {"none", "verify", "fetch"}

SendMessage(h, u, c, content, mode, stream, fault) ==
    /\ chat[h].pc = "idle"
    /\ Len(messages) < MaxMessages
    /\ LET r == [chat[h] EXCEPT !.conversation_id = c, !.content = content,
                                !.mode = mode, !.stream = stream]
           user_message == Message(c, "user", content)
       IN  IF fault = "verify"
           THEN /\ chat' = [chat EXCEPT ![h] = [r EXCEPT !.pc = "end",
                                                         !.http = 500]]
                /\ UNCHANGED messages
           ELSE IF ~Owns(u, c)
           THEN /\ chat' = [chat EXCEPT ![h] = [r EXCEPT !.pc = "end",
                                                         !.http = 404]]
                /\ UNCHANGED messages
           ELSE /\ messages' = Append(messages, user_message)
                /\ chat' = [chat EXCEPT ![h] =
                      LET r2 == [r EXCEPT !.conv_title = conversations[c].title]
                      IN  IF stream
                          THEN [r2 EXCEPT !.pc = "gen", !.http = 200]
                          ELSE IF fault = "fetch"
                          THEN [r2 EXCEPT !.pc = "end", !.http = 500]
                          ELSE [r2 EXCEPT
                                  !.pc = "llm",
                                  !.context =
                                     build_context(
                                        Append(History(c), [role |-> "user",
                                                 content |-> content])
                                        \o <<[role |-> "user",
                                              content |-> content]>>,
                                        DefaultMode)]]
    /\ UNCHANGED conversations
    /\ UNCHANGED coreVars

\* the response of handler h has been sent; the next request may arrive
NextRequest(h) ==
    /\ chat[h].pc = "end"
    /\ chat' = [chat EXCEPT ![h] = NoChat]
    /\ UNCHANGED <<conversations, messages>>
    /\ UNCHANGED coreVars

\* what saving the reply may do: every write succeeds, the insert returns no
\* row, or the insert, the updated_at write or the title write raises
SaveOutcomes == {"ok", "no_data", "insert_raise", "update_raise", "title_raise"}

Saved(sv) == sv \in {"ok", "update_raise", "title_raise"}

\* the writes after the reply is complete: the assistant message, then the
\* automatic title when the title read at the start was empty
SaveReply(r, reply, sv) ==
    /\ sv = "title_raise" => r.conv_title = <<>>
    /\ messages' = IF Saved(sv)
                   THEN Append(messages, Message(r.conversation_id,
                                                 "assistant", reply))
                   ELSE messages
    /\ conversations' =
          IF sv = "ok" /\ r.conv_title = <<>>
             /\ r.conversation_id \in DOMAIN conversations
          THEN [conversations EXCEPT
                  ![r.conversation_id].title = auto_title(r.content)]
          ELSE conversations

Replies == {<<"a">>}

\* llm.ainvoke returns or raises, and send_message saves and answers
LlmReply(h, raised, reply, sv) ==
    /\ chat[h].pc = "llm"
    /\ IF raised
       THEN /\ chat' = [chat EXCEPT ![h] = Respond(h, 500)]
            /\ UNCHANGED <<conversations, messages>>
       ELSE /\ SaveReply(chat[h], reply, sv)
            /\ chat' = [chat EXCEPT
                          ![h] = [Respond(h, IF sv = "ok" THEN 200 ELSE 500)
                                    EXCEPT !.full_response = reply]]
    /\ UNCHANGED coreVars

\* _stream_response: the first event carries the saved user message
StreamUserMessage(h) ==
    /\ chat[h].pc = "gen"
    /\ LET r == chat[h]
           user_message == Message(r.conversation_id, "user", r.content)
       IN  chat' = [chat EXCEPT
                      ![h] = [Emit(r, [type |-> "user_message",
                                       message |-> user_message])
                                EXCEPT !.pc = "context"]]
    /\ UNCHANGED <<conversations, messages>>
    /\ UNCHANGED coreVars

\* generate_response_stream up to its first chunk: history and context
StreamContext(h, up) ==
    /\ chat[h].pc = "context"
    /\ LET r == chat[h] IN
       chat' = [chat EXCEPT
                  ![h] = IF up
                         THEN [r EXCEPT
                                 !.pc = "tokens",
                                 !.context = LlmContext(r.conversation_id,
                                                        r.content, DefaultMode)]
                         ELSE [Emit(r, ErrorEvent) EXCEPT !.pc = "end"]]
    /\ UNCHANGED <<conversations, messages>>
    /\ UNCHANGED coreVars

TokenEvents(r) == SelectSeq(r.events, LAMBDA e : e.type = "token")

\* one chunk of llm.astream
StreamToken(h, token) ==
    /\ chat[h].pc = "tokens"
    /\ Len(TokenEvents(chat[h])) < MaxTokens
    /\ LET r == chat[h] IN
       chat' = [chat EXCEPT
                  ![h] = [Emit(r, [type |-> "token", content |-> token])
                            EXCEPT !.full_response = r.full_response \o token]]
    /\ UNCHANGED <<conversations, messages>>
    /\ UNCHANGED coreVars

\* a handler that saves what has arrived when llm.astream raises
StreamFault_SavesPartial(h) ==
    /\ chat[h].pc = "tokens"
    /\ chat' = [chat EXCEPT
                  ![h] = [Emit(chat[h], ErrorEvent) EXCEPT !.pc = "end"]]
    /\ messages' = Append(messages, Message(chat[h].conversation_id,
                                            "assistant", chat[h].full_response))
    /\ UNCHANGED conversations
    /\ UNCHANGED coreVars

\* llm.astream raises
StreamFault(h) ==
    /\ chat[h].pc = "tokens"
    /\ chat' = [chat EXCEPT
                  ![h] = [Emit(chat[h], ErrorEvent) EXCEPT !.pc = "end"]]
    /\ UNCHANGED <<conversations, messages>>
    /\ UNCHANGED coreVars

\* a stream that goes on to the done event after the error event for an
\* insert that returned no row
FinishEvents_NoReturn(r, sv) ==
    LET ai_message == Message(r.conversation_id, "assistant", r.full_response)
    IN  IF sv = "ok" THEN <<[type |-> "done", message |-> ai_message]>>
        ELSE IF sv = "no_data"
        THEN <<ErrorEvent, [type |-> "done", message |-> ai_message]>>
        ELSE <<ErrorEvent>>

\* the events _stream_response emits once the token stream has ended
FinishEvents(r, sv) ==
    LET ai_message == Message(r.conversation_id, "assistant", r.full_response)
    IN  IF sv = "ok" THEN <<[type |-> "done", message |-> ai_message]>>
        ELSE <<ErrorEvent>>

\* llm.astream is exhausted: the async for loop ends without an exception
StreamEnd(h) ==
    /\ chat[h].pc = "tokens"
    /\ chat' = [chat EXCEPT ![h].pc = "save"]
    /\ UNCHANGED <<conversations, messages>>
    /\ UNCHANGED coreVars

\* after the loop: save the reply and emit the terminal event
StreamFinish(h, sv) ==
    /\ chat[h].pc = "save"
    /\ SaveReply(chat[h], chat[h].full_response, sv)
    /\ chat' = [chat EXCEPT
                  ![h] = [chat[h] EXCEPT
                            !.pc = "end",
                            !.events = @ \o FinishEvents(chat[h], sv)]]
    /\ UNCHANGED coreVars

\* ------------------------------------------------------------------- Next
\* a create_clip call that succeeds, by user u1
CreateOf(types, contents, durs, limit) ==
    \E t \in types, content \in contents, dur \in durs,
       instr \in ContextInstructions :
        CreateClip("u1", t, content, dur, instr, TRUE, TRUE, limit)

Create(limit) == CreateOf(InputTypes, InputContents, TargetDurations, limit)

\* one step of dispatcher w; ups: what a call to the store may do
\* (TRUE: it answers, FALSE: it raises)
WorkerStep(w, ups) ==
    \/ \E up \in ups : Poll(w, up)
    \/ WorkerSleep(w)
    \/ Interrupt(w)
    \/ \E up \in ups : ProcessClipFetch(w, up)
    \/ \E up \in ups : ProcessClipClaim(w, up)
    \/ ProcessNoteNode(w)
    \/ ScrapeUrlNode(w)
    \/ \E llm \in LlmOutcomes : GenerateScriptNode(w, llm)
    \/ \E tts \in TtsOutcomes : TextToSpeechNode(w, tts)
    \/ \E sto \in StorageOutcomes : SaveAudioNode(w, sto)
    \/ \E up \in ups : UpdateClipStatusNode(w, up)
    \/ \E up \in ups : ProcessClipCheck(w, up)
    \/ \E up \in ups : ProcessClipHandler(w, up)

\* one dispatcher; any call to the store may raise
Next ==
    \/ Create(MaxClips)
    \/ \E w \in Workers : WorkerStep(w, BOOLEAN)
    \/ \E w \in Workers : WorkerErrorSleep(w)

\* two dispatchers; the store answers every call
NextRace ==
    \/ Create(RaceClips)
    \/ \E w \in Workers : WorkerStep(w, {TRUE})

Spec == Init /\ [][Next]_vars

SpecRace == InitRace /\ [][NextRace]_vars

\* one dispatcher and one request of any kind, text and duration; any call
\* to the store may raise
NextRun ==
    \/ CreateOf(InputTypes, RunContents, RunDurations, RunClips)
    \/ \E w \in Workers : WorkerStep(w, BOOLEAN)
    \/ \E w \in Workers : WorkerErrorSleep(w)

SpecRun == Init /\ [][NextRun]_vars

\* the graph alone, from its entry point to END
NextGraph ==
    \E w \in Workers :
        \/ GraphEntry(w)
        \/ ProcessNoteNode(w)
        \/ ScrapeUrlNode(w)
        \/ \E llm \in LlmOutcomes : GenerateScriptNode(w, llm)
        \/ \E tts \in TtsOutcomes : TextToSpeechNode(w, tts)
        \/ \E sto \in StorageOutcomes : SaveAudioNode(w, sto)
        \/ \E up \in BOOLEAN : UpdateClipStatusNode(w, up)

SpecGraph == InitGraph /\ [][NextGraph]_vars

\* an operator retries a failed request: the status is set back to pending
OperatorReset(c) ==
    /\ Exists(c)
    /\ clips[c].status = "failed"
    /\ clips' = [clips EXCEPT ![c].status = "pending"]
    /\ UNCHANGED <<objects, pc, batch, st, exc, errSeen, runBy, termWrites,
                   firstError, calls>>
    /\ UNCHANGED runOut
    /\ UNCHANGED webVars
    /\ UNCHANGED progress

\* the runs of a single request next to an operator who retries failures
NextReset ==
    \/ NextRun
    \/ \E c \in 1..RunClips : OperatorReset(c)

SpecReset == Init /\ [][NextReset]_vars

\* build_context alone, applied to a stored history
BuildContext(h, mode) ==
    /\ chat[h].pc = "idle"
    /\ chat' = [chat EXCEPT
                  ![h] = [NoChat EXCEPT
                            !.pc = "built",
                            !.conversation_id = 1,
                            !.mode = mode,
                            !.context = build_context(History(1), mode)]]
    /\ UNCHANGED <<conversations, messages>>
    /\ UNCHANGED coreVars

NextContext == \E h \in Handlers, mode \in Modes : BuildContext(h, mode)

SpecContext == InitContext /\ [][NextContext]_vars

\* update_conversation: the owner renames the conversation; the handler has
\* no await, so it runs as one step between the steps of send_message
UpdateConversation(u, c, title) ==
    /\ Owns(u, c)
    /\ conversations' = [conversations EXCEPT ![c].title = title]
    /\ UNCHANGED <<messages, chat>>
    /\ UNCHANGED coreVars

\* the conversation routes
NextChat ==
    \/ \E u \in Users, title \in ConversationTitles : CreateConversation(u, title)
    \/ \E h \in Handlers, u \in Users, c \in 1..ChatConvs,
          content \in MessageContents, mode \in Modes, stream \in BOOLEAN,
          fault \in SendFaults :
            SendMessage(h, u, c, content, mode, stream, fault)
    \/ \E h \in Handlers, raised \in BOOLEAN, reply \in Replies,
          sv \in SaveOutcomes : LlmReply(h, raised, reply, sv)
    \/ \E h \in Handlers : StreamUserMessage(h)
    \/ \E h \in Handlers, up \in BOOLEAN : StreamContext(h, up)
    \/ \E h \in Handlers, token \in Tokens : StreamToken(h, token)
    \/ \E h \in Handlers : StreamFault(h)
    \/ \E h \in Handlers : StreamEnd(h)
    \/ \E h \in Handlers, sv \in SaveOutcomes : StreamFinish(h, sv)
    \/ \E h \in Handlers : NextRequest(h)

SpecChat == Init /\ [][NextChat]_vars

\* the conversation routes with renames at any time
NextRename ==
    \/ NextChat
    \/ \E u \in Users, c \in 1..ChatConvs, title \in NewTitles :
          UpdateConversation(u, c, title)

SpecRename == Init /\ [][NextRename]_vars

\* one step of a dispatcher that nothing interrupts, with a store and
\* services that answer every call
WorkerStepNote(w) ==
    \/ Poll(w, TRUE)
    \/ WorkerSleep(w)
    \/ ProcessClipFetch(w, TRUE)
    \/ ProcessClipClaim(w, TRUE)
    \/ ProcessNoteNode(w)
    \/ GenerateScriptNode(w, "text")
    \/ TextToSpeechNode(w, "audio")
    \/ SaveAudioNode(w, "ok")
    \/ UpdateClipStatusNode(w, TRUE)
    \/ ProcessClipCheck(w, TRUE)

WorkerStepOk(w) ==
    \/ WorkerStepNote(w)
    \/ ScrapeUrlNode(w)

\* more clips than one poll takes, created while the dispatcher runs
NextPoll ==
    \/ Create(PollClips)
    \/ WorkerStepOk("w1")

\* the dispatcher's process keeps running: its loop always has a next step
SpecPoll == Init /\ [][NextPoll]_vars /\ WF_vars(WorkerStepOk("w1"))

\* the clip and playback routes, called by two users for notes, next to a
\* dispatcher whose calls all succeed
NextApi ==
    \/ \E u \in Users, dur \in RequestDurations, ins \in BOOLEAN,
          prog \in BOOLEAN :
            CreateClip(u, "note", "text", dur, None, ins, prog, ApiClips)
    \/ \E a \in {"a1"}, op \in ApiOps, u \in Users, c \in 1..ApiClips,
          position \in Positions, completed \in {TRUE}, up \in BOOLEAN :
            ApiRequest(a, op, u, c, position, completed, up)
    \/ \E a \in {"a1"}, up \in BOOLEAN : ToggleUpdate(a, up)
    \/ \E a \in {"a1"}, up \in BOOLEAN : DeleteRemove(a, up)
    \/ \E a \in {"a1"}, up \in BOOLEAN : DeleteRow(a, up)
    \/ \E a \in {"a1"}, up \in BOOLEAN : UpsertProgress(a, up)
    \/ \E a \in {"a1"} : ApiDone(a)
    \/ WorkerStepNote("w1")

SpecApi == Init /\ [][NextApi]_vars

\* toggle_favorite called by the owner and by another user, two requests
\* being served at a time
NextToggle ==
    \/ Create(ApiClips)
    \/ \E a \in Callers, u \in Users, c \in 1..ApiClips, up \in BOOLEAN :
          ApiRequest(a, "toggle_favorite", u, c, 0, FALSE, up)
    \/ \E a \in Callers, up \in BOOLEAN : ToggleUpdate(a, up)
    \/ \E a \in Callers : ApiDone(a)

SpecToggle == Init /\ [][NextToggle]_vars

\* ================================================================ claims
Terminal == {"completed", "failed"}

\* worker w takes a step out of the node it is at (it invokes that node)
Invokes(w, n) == pc[w] = n /\ pc'[w] \notin {n, "stopped"}

\* C1: with two dispatchers polling the same store, every request is executed
\* by at most one of them and receives at most one terminal (completed or
\* failed) write.
C1_AtMostOneExecution ==
    \A c \in DOMAIN clips : Cardinality(runBy[c]) <= 1 /\ termWrites[c] <= 1

\* C2: the claim step of process_clip is conditional: invoked for a request
\* whose status is no longer pending it changes nothing in the store and the
\* pipeline is not run for it.
C2_ConditionalClaim ==
    [][\A w \in Workers :
         (Invokes(w, "claim") /\ clips[st[w].clip_id].status # "pending")
            => (clips' = clips /\ pc'[w] \notin Stages)]_vars

\* C3: halt-on-error: a stage invoked with the error field already set returns
\* the state unchanged (the error field included) and performs no external
\* call: no synthesis, no upload, no store write.
C3_HaltOnError ==
    [][\A w \in Workers :
         (pc[w] \in Stages /\ pc'[w] \notin {pc[w], "stopped"}
            /\ st[w].error # None)
            => /\ st'[w] = st[w]
               /\ calls'[w] = calls[w]
               /\ clips' = clips
               /\ objects' = objects
               /\ termWrites' = termWrites]_vars

\* C4: the error_message process_clip writes with status failed is the message
\* set by the first stage that failed in the run.
C4_FirstErrorPreserved ==
    [][\A w \in Workers :
         (pc[w] = "check" /\ pc'[w] = "loop" /\ firstError[w] # None)
            => /\ clips'[st[w].clip_id].status = "failed"
               /\ clips'[st[w].clip_id].error_message = firstError[w]]_vars

\* C5: in a run where an earlier stage set the error field, Finalize-Status
\* (update_clip_status_node) is never invoked, and Store-Artifact is not invoked
\* after a synthesis failure.
C5_FinalizeSkippedOnError ==
    [][\A w \in Workers :
         /\ firstError[w] # None => ~Invokes(w, "update_status")
         /\ firstError[w] \in {MsgNoScript, MsgTts} => ~Invokes(w, "save_audio")
      ]_vars

\* C6: in every state of the store a request is completed if and only if its
\* audio reference is set.
C6_CompletedIffAudioUrl ==
    \A c \in DOMAIN clips :
        (clips[c].status = "completed") <=> (clips[c].audio_url # None)

\* C7: in every state of the store completed_at is set if and only if the
\* request's status is completed.
C7_CompletedAtIffCompleted ==
    \A c \in DOMAIN clips :
        clips[c].completed_at <=> (clips[c].status = "completed")

\* C8: the status of a request only moves pending -> processing -> completed
\* or pending -> processing -> failed.
C8_StatusLifecycle ==
    [][\A c \in DOMAIN clips :
         clips'[c].status # clips[c].status
            => <<clips[c].status, clips'[c].status>> \in
                  {<<"pending", "processing">>, <<"processing", "completed">>,
                   <<"processing", "failed">>}]_vars

\* C9: when process_clip returns or raises for a request it has moved to
\* processing, the request is completed or failed: no fault leaves it in
\* processing.
C9_NoRequestLeftProcessing ==
    [][\A w \in Workers :
         (pc[w] \in {"check", "handler"} /\ pc'[w] \in {"loop", WorkerOnError}
            /\ w \in runBy[st[w].clip_id])
            => clips'[st[w].clip_id].status \in Terminal]_vars

\* C10: run_worker ends only on the interrupt signal: an error raised while
\* polling, or escaping from process_clip, is logged and followed by the
\* sleep of the poll interval and another poll cycle.
C10_LoopSurvivesErrors ==
    [][\A w \in Workers :
         /\ (pc[w] # "stopped" /\ pc'[w] = "stopped") => Interrupt(w)
         /\ (errSeen'[w] /\ ~errSeen[w]) => pc'[w] = "errsleep"
         /\ (pc[w] = "poll" /\ pc'[w] # "poll")
               => pc'[w] \in {"loop", "errsleep", "stopped"}
         /\ (pc[w] = "handler" /\ pc'[w] # "handler")
               => pc'[w] \in {"loop", "errsleep", "stopped"}
         /\ (pc[w] = "errsleep" /\ pc'[w] # "errsleep")
               => pc'[w] \in {"poll", "stopped"}]_vars

\* C10 witness: after a logged error the worker has polled again and is
\* processing a request.
C10_Witness == \E w \in Workers : errSeen[w] /\ pc[w] = "claim"

\* worker w is inside a call of process_clip
InRun(w) == pc[w] \in Stages \cup {"claim", "check", "handler"}

\* C11: whatever happens while process_clip handles one request of a polled
\* batch, the later requests of that batch stay queued for the same cycle
\* (an interrupt of the dispatcher aside).
C11_BatchIsolation ==
    [][\A w \in Workers :
         (InRun(w) /\ pc'[w] # "stopped") => batch'[w] = batch[w]]_vars

\* the ids of s are in creation order
Ascending(s) == \A i, j \in 1..Len(s) : i < j => s[i] < s[j]

\* the members of s
Range(s) == {s[i] : i \in 1..Len(s)}

\* C12: a poll takes only pending requests, oldest first and at most
\* BatchLimit of them, leaving out a pending request only when the batch is
\* full of older ones; the loop executes the batch in that order: every call
\* of process_clip takes the head of what is left, and between two polls the
\* batch never grows, so no cycle claims more than BatchLimit requests.
C12_PollOldestFirstAtMostFive ==
    [][\A w \in Workers :
         /\ (pc[w] = "poll" /\ pc'[w] = "loop") =>
               /\ Len(batch'[w]) <= BatchLimit
               /\ Ascending(batch'[w])
               /\ \A c \in Range(batch'[w]) : IsPending(c)
               /\ \A c \in DOMAIN clips :
                     (IsPending(c) /\ c \notin Range(batch'[w])) =>
                         /\ Len(batch'[w]) = BatchLimit
                         /\ \A d \in Range(batch'[w]) : d < c
         /\ (pc[w] = "loop" /\ pc'[w] \in {"claim", "handler"}) =>
               /\ st'[w].clip_id = Head(batch[w])
               /\ batch'[w] = Tail(batch[w])
         /\ (pc[w] # "poll" /\ batch'[w] # batch[w]) =>
               \/ batch'[w] = <<>>
               \/ batch'[w] = Tail(batch[w])]_vars

\* a dispatcher executes the oldest request of a full batch while a younger
\* request waits for the next poll
C12_Witness ==
    \E w \in Workers :
        /\ pc[w] = "claim"
        /\ Len(batch[w]) = BatchLimit - 1
        /\ \E c \in DOMAIN clips : IsPending(c) /\ c \notin Range(batch[w])
                                     /\ c # st[w].clip_id

\* C13: no dispatcher starts a pipeline run for a request whose status is
\* failed when the run starts.
C13_FailedNeverRerun ==
    [][\A w \in Workers :
         (pc[w] = "claim" /\ pc'[w] \in Stages) =>
             clips[st[w].clip_id].status # "failed"]_vars

C15_NotePassThrough ==
    [][\A w \in Workers :
         Invokes(w, "process_note") =>
             /\ st[w].input_type = "note"
             /\ st'[w].extracted_content = st[w].input_content
             /\ st'[w].page_title = None
             /\ calls'[w] = calls[w]
             /\ clips' = clips
             /\ objects' = objects]_vars

\* the note stage has returned for each of the two texts
C15_Witness ==
    \E w \in Workers :
        /\ trace[w] = <<"process_note">>
        /\ st[w].extracted_content = "https://site.down/page"
        /\ st[w].input_content = "https://site.down/page"

ExtractStages == {"process_note", "scrape_url"}

C17_RouterTotal ==
    [][\A w \in Workers :
         (pc[w] = "entry" /\ pc'[w] # "entry") =>
             /\ st[w].input_type = "note" => pc'[w] = "process_note"
             /\ st[w].input_type = "url" => pc'[w] = "scrape_url"
             /\ st[w].input_type \notin InputTypes => pc'[w] \notin Stages]_vars

\* the address of a page whose fetch times out
Unreachable(content) == content = "https://site.down/page"

LaterStages == {"generate_script", "text_to_speech", "save_audio"}

\* C18: in a url run, once the url stage has returned, extracted_content is
\* populated or the error is set and no later stage's field is; and for an
\* address whose fetch fails the error is set by the url stage and neither
\* generation nor synthesis nor storage is invoked.
C18_UrlExtractionFailureHalts ==
    \A w \in Workers :
        (st[w].input_type = "url" /\ trace[w] # <<>>) =>
            /\ \/ ~Falsy(st[w].extracted_content)
               \/ /\ st[w].error # None
                  /\ Falsy(st[w].script)
                  /\ Falsy(st[w].audio_data)
                  /\ Falsy(st[w].audio_url)
            /\ Unreachable(st[w].input_content) =>
                  /\ st[w].error # None
                  /\ Range(trace[w]) \cap LaterStages = {}

\* s is an initial part of t
IsPrefix(s, t) == Len(s) <= Len(t) /\ \A i \in 1..Len(s) : s[i] = t[i]

\* the stages of a run that starts with extraction stage first
Pipeline(first) ==
    <<first, "generate_script", "text_to_speech", "save_audio", "update_status">>

\* C19: the stages invoked in a run are, in this order, one extraction stage,
\* generate_script, text_to_speech, save_audio and update_status: each at most
\* once, none before its predecessor has returned, and the stage a run is at
\* is the one that follows the last stage invoked.
C19_StageOrder ==
    \A w \in Workers :
        /\ \E first \in ExtractStages : IsPrefix(trace[w], Pipeline(first))
        /\ (pc[w] \in Stages \ ExtractStages) =>
               \E first \in ExtractStages :
                   /\ Len(trace[w]) < Len(Pipeline(first))
                   /\ Pipeline(first)[Len(trace[w]) + 1] = pc[w]

\* a run has invoked all five stages
C19_Witness ==
    \E w \in Workers :
        /\ pc[w] = "check"
        /\ trace[w] = Pipeline("process_note")

\* worker w's run made the generation, synthesis, upload and signing calls
\* and each of them succeeded
ServicesSucceeded(w) ==
    /\ calls[w] = {"llm", "tts", "upload", "sign"}
    /\ ~Falsy(st[w].script)
    /\ ~Falsy(st[w].audio_data)
    /\ ~Falsy(st[w].audio_url)

\* the graph of a note run whose services succeeded reaches its last stage
NoteRunFinalizes(w) ==
    /\ Invokes(w, "update_status")
    /\ st[w].input_type = "note"
    /\ ServicesSucceeded(w)

\* process_clip ends for a note run whose services succeeded
NoteRunReturns(w) ==
    /\ Invokes(w, "check")
    /\ st[w].input_type = "note"
    /\ ServicesSucceeded(w)

\* the prompt asked for 150 words per minute and the run ends with the
\* request completed and holding an audio reference
HappyEnd(w) ==
    /\ llmWords[w] = st[w].target_duration * 150
    /\ st[w].target_duration = 5 => llmWords[w] = 750
    /\ clips'[st[w].clip_id].status = "completed"
    /\ ~Falsy(clips'[st[w].clip_id].audio_url)

\* C20 as stated: a note run whose generation, synthesis, upload and signing
\* calls all succeed asks for target_duration * 150 words and ends with the
\* request completed with a non-empty audio reference, and process_clip
\* returns success.
C20_HappyPath ==
    [][\A w \in Workers :
         /\ NoteRunFinalizes(w) => HappyEnd(w)
         /\ NoteRunReturns(w) => ret'[w] = Success]_vars

\* C20 amended: the same, for a run whose final write of update_status the
\* store accepted too.
C20_HappyPathStoreUp ==
    [][\A w \in Workers :
         /\ (NoteRunFinalizes(w) /\ st'[w].error = None) => HappyEnd(w)
         /\ (NoteRunReturns(w) /\ st[w].error = None) => ret'[w] = Success]_vars

\* process_clip has returned success for a note of 5 minutes, now completed
C20_Witness ==
    \E w \in Workers, c \in DOMAIN clips :
        /\ ret[w] = Success
        /\ clips[c].input_type = "note"
        /\ clips[c].target_duration = 5
        /\ clips[c].status = "completed"
        /\ ~Falsy(clips[c].audio_url)
        /\ c \in objects

TerminalEvents == {"done", "error"}

\* the types of the events of handler h's stream, in order of emission
EventTypes(h) == [i \in 1..Len(chat[h].events) |-> chat[h].events[i].type]

\* C21: the stream of a streamed message starts with exactly one
\* user_message event, goes on with token events only, and ends with exactly
\* one terminal event, done (carrying the saved assistant message) or error:
\* nothing follows the terminal event, and a stream that has ended has one.
C21_StreamShape ==
    \A h \in Handlers :
        LET ev == EventTypes(h)
            n == Len(ev)
        IN  /\ n > 0 => ev[1] = "user_message"
            /\ \A i \in 2..n : ev[i] \in TerminalEvents \cup {"token"}
            /\ \A i \in 1..n : ev[i] \in TerminalEvents => i = n
            /\ (chat[h].stream /\ chat[h].http = 200) =>
                   /\ chat[h].pc = "end" <=> (n > 1 /\ ev[n] \in TerminalEvents)
                   /\ (n > 0 /\ ev[n] = "done") =>
                          /\ chat[h].events[n].message \in Range(messages)
                          /\ chat[h].events[n].message.role = "assistant"

\* a stream of two tokens has ended with done
C21_Witness ==
    \E h \in Handlers :
        /\ chat[h].pc = "end"
        /\ EventTypes(h) = <<"user_message", "token", "token", "done">>

\* a stream has ended with error after a token
C21_WitnessError ==
    \E h \in Handlers :
        /\ chat[h].pc = "end"
        /\ EventTypes(h) = <<"user_message", "token", "error">>

\* C22: the context send_message builds for the LLM starts with the system
\* prompt of the request's mode: the talk prompt for talk, the type prompt
\* for type, streaming or not.
C22_ModeSelectsPrompt ==
    \A h \in Handlers :
        chat[h].context # <<>> =>
            chat[h].context[1] =
                [role |-> "system",
                 content |-> IF chat[h].mode = "talk"
                             THEN TALK_MODE_SYSTEM_PROMPT
                             ELSE TYPE_MODE_SYSTEM_PROMPT]


\* C23: create_clip stores every new request with status pending and answers
\* 201 with it, whether or not its playback-progress row could be written; a
\* stored request has one of the target durations 2, 5, 10; a call that is
\* rejected writes nothing to the store.
C23_CreateClip ==
    [][LET n == Len(clips) IN
       /\ Len(clips') # n =>
            /\ Len(clips') = n + 1
            /\ clips'[n + 1].status = "pending"
            /\ clips'[n + 1].target_duration \in {2, 5, 10}
            /\ created' = Response(201, n + 1)
            /\ \A c \in 1..n : clips'[c] = clips[c]
       /\ (created' # created /\ created'.http # 201) =>
            /\ clips' = clips
            /\ progress' = progress
            /\ objects' = objects
       /\ (created' # created /\ created'.http = 201) =>
            Len(clips') = n + 1]_vars

\* a clip was created and returned although its progress row was not written
C23_Witness ==
    /\ created.http = 201
    /\ clips[created.clip_id].status = "pending"
    /\ \A p \in progress : p.clip_id # created.clip_id

\* a request with a target duration of 7 was rejected and nothing is stored
C23_WitnessRejected ==
    /\ created.http = 422
    /\ clips = <<>>
    /\ progress = {}


\* the playback-progress rows of clip c
ProgressOf(c) == {p \in progress : p.clip_id = c}

\* C24: a call of get_clip, toggle_favorite, delete_clip, get_progress or
\* update_progress for a clip that is missing or owned by another user ends at
\* its ownership query, answered not found (500 if the store itself failed),
\* and changes no clip row, audio object or playback-progress row; whatever a
\* route call changes of a clip, its audio object or its progress rows, the
\* caller is the owner of that clip.
C24_OwnershipIsolation ==
    [][\A a \in Callers :
         /\ (api[a].pc = "idle" /\ api'[a].pc # "idle"
             /\ ~OwnedRow(api'[a].user, api'[a].clip_id)) =>
                /\ api'[a].pc = "end"
                /\ api'[a].http \in {404, 500}
                /\ clips' = clips
                /\ objects' = objects
                /\ progress' = progress
         /\ (api[a].pc \notin {"idle", "end"} /\ api'[a] # api[a]) =>
                \A c \in 1..Len(clips) :
                    (\/ clips'[c] # clips[c]
                     \/ (c \in objects') # (c \in objects)
                     \/ {p \in progress' : p.clip_id = c} # ProgressOf(c))
                    => (c = api[a].clip_id /\ clips[c].user_id = api[a].user)
      ]_vars

\* another user's delete_clip was answered not found while the clip, its audio
\* object and its progress row are all there
C24_Witness ==
    \E a \in Callers :
        /\ api[a].op = "delete_clip"
        /\ api[a].http = 404
        /\ Exists(api[a].clip_id)
        /\ clips[api[a].clip_id].user_id # api[a].user
        /\ api[a].clip_id \in objects
        /\ ProgressOf(api[a].clip_id) # {}


\* process_clip ends in this step, by returning or by raising an Exception
Ends(w) ==
    /\ pc[w] \in {"check", "handler"}
    /\ pc'[w] \notin {"check", "handler", "stopped"}

\* C25: when process_clip ends it has returned a value; the value is
\* success=true exactly if the request is then stored completed with an audio
\* reference, and otherwise success=false with a non-empty error, the request
\* being stored failed with that error as error_message.
C25_ReturnMatchesStore ==
    [][\A w \in Workers : Ends(w) =>
         LET c == st[w].clip_id IN
         /\ ret'[w] # NoReturn
         /\ ret'[w].success <=> /\ clips'[c].status = "completed"
                                /\ ~Falsy(clips'[c].audio_url)
         /\ ~ret'[w].success =>
              /\ ~Falsy(ret'[w].error)
              /\ clips'[c].status = "failed"
              /\ clips'[c].error_message = ret'[w].error
      ]_vars


\* C26: when generate_script has run, either it set the generation error and
\* wrote no script, or it set no error and wrote a script that is not empty;
\* it never leaves the script empty with no error.
C26_ScriptOrError ==
    \A w \in Workers : pc[w] = "text_to_speech" =>
        \/ st[w].error = MsgScript /\ st[w].script = None
        \/ st[w].error = None /\ ~Falsy(st[w].script)


\* the error messages a stage can set
StageErrors(n) ==
    CASE n = "generate_script" -> {MsgScript}
      [] n = "text_to_speech" -> {MsgNoScript, MsgTts}
      [] n = "save_audio" -> {MsgNoAudio, MsgSave}
      [] OTHER -> {}

\* worker w's stage n runs in this step and sets its error
StageFails(w, n) == pc[w] = n /\ pc'[w] # n /\ st'[w].error \in StageErrors(n)

\* C27: a step in which generate_script, text_to_speech or save_audio sets its
\* error changes no other field of the state record: every field but error has
\* the value it had when the stage was entered.
C27_FailureWritesOnlyError ==
    [][\A w \in Workers :
         \A n \in {"generate_script", "text_to_speech", "save_audio"} :
            StageFails(w, n) => [st'[w] EXCEPT !.error = st[w].error] = st[w]
      ]_vars

\* the signing failed after the synthesis had succeeded: there is audio data
\* and neither a file name nor a reference
C27_Witness ==
    \E w \in Workers :
        /\ pc[w] = "update_status"
        /\ st[w].error = MsgSave
        /\ st[w].audio_data = "mp3"
        /\ st[w].clip_id \in objects
        /\ st[w].audio_filename = None
        /\ st[w].audio_url = None


\* C28: save_audio sets audio_filename and audio_url in the same step or not
\* at all; when it sets them the object is in the bucket and the stage set no
\* error; when it does not, it set a storage error. In every state of a run
\* audio_filename is set exactly if audio_url is, and then the upload of this
\* run was made and its object is stored.
C28_ReferenceAfterUpload ==
    /\ [][\A w \in Workers :
            (pc[w] = "save_audio" /\ pc'[w] = NextNode("save_audio")) =>
               IF st'[w].audio_url # None
               THEN /\ st'[w].audio_filename = "mp3"
                    /\ st'[w].audio_url = "signed"
                    /\ st'[w].error = st[w].error
                    /\ st[w].clip_id \in objects'
                    /\ {"upload", "sign"} \subseteq calls'[w]
               ELSE /\ st'[w].audio_filename = None
                    /\ st'[w].error \in {MsgNoAudio, MsgSave}
         ]_vars
    /\ [](\A w \in Workers :
            /\ (st[w].audio_filename = None) <=> (st[w].audio_url = None)
            /\ st[w].audio_url # None =>
                  /\ "upload" \in calls[w]
                  /\ st[w].clip_id \in objects)

\* the reference and the file name are set and the object is in the bucket
C28_Witness ==
    \E w \in Workers :
        /\ pc[w] = "update_status"
        /\ st[w].audio_url = "signed"
        /\ st[w].audio_filename = "mp3"
        /\ st[w].clip_id \in objects


\* C29: text_to_speech entered with an empty or absent script sets 'No script
\* available for TTS conversion', does not call the service and writes no
\* audio; entered with a script it calls the service, and either the service
\* reported an error, which becomes the error field while audio_data and
\* actual_duration stay unset, or both are written and the error field is
\* left as it was.
C29_SynthesisGuard ==
    [][\A w \in Workers :
         (pc[w] = "text_to_speech" /\ pc'[w] = NextNode("text_to_speech")) =>
            IF Falsy(st[w].script)
            THEN /\ st'[w].error = MsgNoScript
                 /\ "tts" \notin calls'[w]
                 /\ st'[w].audio_data = None
                 /\ st'[w].actual_duration = None
            ELSE /\ "tts" \in calls'[w]
                 /\ \/ /\ st'[w].error = MsgTts
                       /\ st'[w].audio_data = None
                       /\ st'[w].actual_duration = None
                    \/ /\ st'[w].error = st[w].error
                       /\ st'[w].audio_data = "mp3"
                       /\ st'[w].actual_duration = "seconds"
      ]_vars

\* the stage ran with the empty script of a blank reply: the generation call
\* was made, the synthesis call was not
C29_Witness ==
    \E w \in Workers :
        /\ pc[w] = "save_audio"
        /\ st[w].script = ""
        /\ st[w].error = MsgNoScript
        /\ calls[w] = {"llm"}

\* the service reported an error for a script that was there
C29_WitnessServiceError ==
    \E w \in Workers :
        /\ pc[w] = "save_audio"
        /\ st[w].script = "script"
        /\ st[w].error = MsgTts
        /\ st[w].audio_data = None


InputFields ==
    {"clip_id", "input_type", "input_content", "target_duration",
     "context_instruction"}

\* the stages that may write a stage-populated field; of the two extraction
\* stages a run has one
Writers(f) ==
    CASE f = "extracted_content" -> {"process_note", "scrape_url"}
      [] f = "page_title" -> {"scrape_url"}
      [] f = "script" -> {"generate_script"}
      [] f \in {"audio_data", "actual_duration"} -> {"text_to_speech"}
      [] f \in {"audio_filename", "audio_url"} -> {"save_audio"}

StageFields ==
    {"extracted_content", "page_title", "script", "audio_data",
     "actual_duration", "audio_filename", "audio_url"}

\* C30: no step of a run of the graph (the process being killed aside)
\* changes clip_id, input_type, input_content, target_duration or
\* context_instruction; a stage-populated
\* field changes only in a step of its own stage and only from unset, so it
\* is written at most once in a run, and by one stage.
C30_WriteOnce ==
    [][\A w \in Workers :
         (pc[w] \in Stages \cup {"entry"} /\ pc'[w] # "stopped") =>
         /\ \A f \in InputFields : st'[w][f] = st[w][f]
         /\ \A f \in StageFields :
               st'[w][f] # st[w][f] =>
                  /\ pc[w] \in Writers(f)
                  /\ st[w][f] = None
                  /\ Writers(f) \cap Range(trace[w]) = {}
      ]_vars

\* a run for an address has passed all its stages and every stage-populated
\* field is written
C30_Witness ==
    \E w \in Workers :
        /\ pc[w] = "check"
        /\ st[w].input_type = "url"
        /\ \A f \in StageFields : st[w][f] # None


\* C31: when process_clip fetches a request that is no longer in the store,
\* it returns success=false with 'Clip not found' to the loop: no stage is
\* invoked, no service is called, no run is recorded, and no row or object is
\* created or changed.
C31_VanishedRequestSkipped ==
    [][\A w \in Workers :
         (/\ pc[w] = "loop"
          /\ batch[w] # <<>>
          /\ batch'[w] = Tail(batch[w])
          /\ clips[Head(batch[w])] = DeletedRow) =>
             /\ pc'[w] = "loop"
             /\ ret'[w] = Failure("Clip not found")
             /\ clips' = clips
             /\ objects' = objects
             /\ progress' = progress
             /\ runBy' = runBy
             /\ trace'[w] = trace[w]
             /\ calls'[w] = calls[w]
      ]_vars

\* the polled request was deleted before its turn and the call returned
C31_Witness ==
    \E w \in Workers :
        /\ ret[w] = Failure("Clip not found")
        /\ pc[w] = "loop"
        /\ \E c \in 1..Len(clips) : clips[c] = DeletedRow /\ runBy[c] = {}


\* C32: in every state a failed request has a non-empty error_message and a
\* completed request has none, also after an operator has set a failed
\* request back to pending and a later run has completed it.
C32_ErrorMessageMatchesStatus ==
    \A c \in 1..Len(clips) :
        /\ clips[c].status = "failed" => ~Falsy(clips[c].error_message)
        /\ clips[c].status = "completed" => Falsy(clips[c].error_message)


\* the content of the token events of r's stream, concatenated in order
RECURSIVE Concat(_)
Concat(ev) ==
    IF ev = <<>> THEN <<>>
    ELSE (IF Head(ev).type = "token" THEN Head(ev).content ELSE <<>>)
         \o Concat(Tail(ev))

\* handler h's stream comes to its end in this step
StreamCloses(h) == chat[h].stream /\ chat[h].pc \in {"context", "tokens", "save"}
                   /\ chat'[h].pc = "end"

\* the assistant message this step persists for handler h's conversation
Persists(h, content) ==
    messages' = Append(messages,
                       Message(chat[h].conversation_id, "assistant", content))

\* C33: the step that closes a stream persists an assistant message exactly
\* if the token stream had ended without a fault, and then with the
\* concatenation of the emitted tokens as content; otherwise the messages
\* stay as they are, the saved user message included.
C33_PersistedIffStreamEnded ==
    [][\A h \in Handlers : StreamCloses(h) =>
         IF chat[h].pc = "save"
         THEN Persists(h, Concat(chat[h].events))
         ELSE messages' = messages
      ]_vars

\* C33 as amended: the step that closes a stream changes the messages only by
\* appending one assistant message, only after the token stream had ended
\* without a fault, and then with the concatenation of the emitted tokens as
\* content; a stream that closes with done has persisted it; a stream that
\* faults midway persists nothing; the user message saved before the stream
\* stays in every case.
C33_PersistedOnlyIfStreamEnded ==
    [][\A h \in Handlers : StreamCloses(h) =>
         LET user_message ==
                 Message(chat[h].conversation_id, "user", chat[h].content)
             last == chat'[h].events[Len(chat'[h].events)]
         IN  /\ messages' # messages =>
                  /\ chat[h].pc = "save"
                  /\ Persists(h, Concat(chat[h].events))
             /\ last.type = "done" =>
                  /\ Persists(h, Concat(chat[h].events))
                  /\ last.message = messages'[Len(messages')]
             /\ chat[h].pc # "save" =>
                  /\ messages' = messages
                  /\ last.type = "error"
             /\ user_message \in Range(messages')
      ]_vars

\* a stream of two tokens closed with done and their concatenation is stored
C33_Witness ==
    \E h \in Handlers :
        /\ chat[h].pc = "end"
        /\ EventTypes(h) = <<"user_message", "token", "token", "done">>
        /\ messages[Len(messages)].role = "assistant"
        /\ messages[Len(messages)].content = Concat(chat[h].events)
        /\ Len(Concat(chat[h].events)) >= 2

\* a stream faulted after a token and the last stored message is the user's
C33_WitnessFault ==
    \E h \in Handlers :
        /\ chat[h].pc = "end"
        /\ EventTypes(h) = <<"user_message", "token", "error">>
        /\ messages[Len(messages)].role = "user"


\* the places of the history that build_context is to keep: those among the
\* last MAX_CONTEXT_MESSAGES whose role is user or assistant
KeptPlaces(msgs) ==
    {i \in 1..Len(msgs) : /\ i > Len(msgs) - MAX_CONTEXT_MESSAGES
                          /\ msgs[i].role \in {"user", "assistant"}}

\* the k-th smallest element of the set of places S
Place(S, k) == CHOOSE i \in S : Cardinality({j \in S : j <= i}) = k

\* C34: the context starts with the system prompt of the mode; after it come
\* exactly the user and assistant messages among the 20 most recent entries
\* of the history, in the order of the history; no entry of role system is
\* in it; it has at most 21 elements.
C34_ContextIsRecentWindow ==
    \A h \in Handlers : chat[h].pc = "built" =>
        LET ctx == chat[h].context
            msgs == History(chat[h].conversation_id)
            S == KeptPlaces(msgs)
        IN  /\ ctx[1] = [role |-> "system",
                         content |-> IF chat[h].mode = "talk"
                                     THEN TALK_MODE_SYSTEM_PROMPT
                                     ELSE TYPE_MODE_SYSTEM_PROMPT]
            /\ Len(ctx) = 1 + Cardinality(S)
            /\ \A k \in 1..Cardinality(S) : ctx[k + 1] = msgs[Place(S, k)]
            /\ \A k \in 2..Len(ctx) : ctx[k].role # "system"
            /\ Len(ctx) <= MAX_CONTEXT_MESSAGES + 1

\* a history longer than 20 with an entry of role system among the last 20
\* and one before them: the context has the 19 others of the last 20
C34_Witness ==
    \E h \in Handlers :
        /\ chat[h].pc = "built"
        /\ Len(messages) = MAX_CONTEXT_MESSAGES + 2
        /\ messages[1].role = "system"
        /\ messages[Len(messages)].role = "system"
        /\ Len(chat[h].context) = MAX_CONTEXT_MESSAGES
        /\ chat[h].context[2].content = Chars(3)


\* C35: a step of send_message that changes the title of a conversation
\* finds that title empty and writes the automatic title of its message.
C35_TitleNeverOverwritten ==
    [][\A c \in 1..Len(conversations) :
         (chat' # chat /\ conversations'[c].title # conversations[c].title) =>
            /\ conversations[c].title = <<>>
            /\ \E h \in Handlers :
                  conversations'[c].title = auto_title(chat[h].content)
      ]_vars


\* C36: a toggle_favorite call that completes flips the stored flag: the
\* value it writes is the negation of the value stored when it writes, so n
\* completed calls leave the flag at its original value for even n and at
\* the negation for odd n.
C36_ToggleFlipsStoredFlag ==
    [][\A a \in Callers :
         (api[a].pc = "update" /\ api'[a].pc = "end" /\ api'[a].http = 200) =>
            clips'[api[a].clip_id].is_favorited =
               ~clips[api[a].clip_id].is_favorited
      ]_vars


\* C37: once delete_clip has deleted the row of a clip and returned, the row
\* stays deleted and there is no audio object keyed by the clip's id, then
\* and ever after, whatever a dispatcher that was processing the clip does.
C37_DeletedLeavesNothing ==
    /\ [](\A c \in 1..Len(clips) : clips[c] = DeletedRow => c \notin objects)
    /\ [][\A c \in 1..Len(clips) :
            clips[c] = DeletedRow => clips'[c] = DeletedRow]_vars

\* the clip was deleted while the dispatcher was running it: delete_clip read
\* no audio_url and removed nothing, and the run's upload is in the bucket
C37_OrphanAfterRun ==
    \E a \in Callers :
        /\ api[a].op = "delete_clip"
        /\ api[a].pc = "end"
        /\ api[a].http = 200
        /\ api[a].audio_url = None
        /\ clips[api[a].clip_id] = DeletedRow
        /\ api[a].clip_id \in objects

============================================================================
